---- MODULE Spec2Model ----
(***************************************************************************)
(* A model of transformer.py: the feature extractor prepare_data, the      *)
(* training loop of train_churn_model with its best-snapshot selection,    *)
(* and predict_churn.                                                      *)
(*                                                                         *)
(* Three specifications share the variables:                               *)
(*   SpecPrep   one call of prepare_data(df1, df2), one step per iteration *)
(*              of its client loop;                                        *)
(*   SpecTrain  one call of train_churn_model followed by one call of      *)
(*              predict_churn on the returned (model, scaler);             *)
(*   Spec       either of the two.                                         *)
(***************************************************************************)
EXTENDS Integers, Sequences, FiniteSets, TLC

VARIABLES
    \* ---- prepare_data ----
    pcPrep,            \* "start" | "loop" | "returned"
    df1,               \* the period-1 table
    clients_period1,   \* line 48
    clients_period2,   \* line 49
    churners,          \* line 51
    remaining,         \* ids the for loop of line 57 has still to visit
    visited,           \* ids the for loop has visited, in iteration order
    features, labels,  \* lines 54-55, 77-78
    \* ---- train_churn_model / predict_churn ----
    pc,                \* "start" | "loop" | "train" | "returned" | "*_raised"
    epochs, batch_size,\* arguments of train_churn_model
    nSamples,          \* rows of the feature matrix prepare_data returned
    nTrainBatches,     \* len(train_loader)
    nValBatches,       \* len(val_loader)
    epoch,             \* epochs completed = next value of the loop variable
    batchIdx,          \* batches of train_loader consumed in this epoch
    mode,              \* "train" | "eval": model.train() / model.eval()
    tensors,           \* the tensor heap: tensor id -> value
    best_val_loss, best_model, val_loss,
    valHist,           \* val_loss of each completed epoch
    paramHist,         \* parameter values at the end of each completed epoch
    new_client_data,   \* predict_churn's argument: the prepared new rows
    probabilities      \* what predict_churn returned

prepVars  == <<pcPrep, df1, clients_period1, clients_period2, churners,
               remaining, visited, features, labels>>
trainVars == <<pc, epochs, batch_size, nSamples, nTrainBatches, nValBatches,
               epoch, batchIdx, mode, tensors, best_val_loss, best_model,
               val_loss, valHist, paramHist,
               new_client_data, probabilities>>
vars      == <<prepVars, trainVars>>

-----------------------------------------------------------------------------
(* Bounds of the model.                                                    *)
MaxRows == 3         \* rows of the period-1 table
MaxRows2 == 2        \* rows of the period-2 table
MaxEpochs == 3       \* the epochs argument
MaxSamples == 6      \* clients of period 1 in a training call
MaxNewRows == 2      \* rows of predict_churn's client_data

(* The values the columns take.  A category is a string or is missing      *)
(* (float NaN in a pandas object column).                                  *)
ClientIds == {"c1", "c2", "c3"}
Categories == {"a", "b"}
MissingCategory == "<NaN>"
Txns == { [revenue |-> 25, quantity |-> 3, loss |-> 2,
           product_id |-> "p1", transaction_date |-> "d1"] }

Rows == { [client_id |-> c, product_category |-> k,
           revenue |-> t.revenue, quantity |-> t.quantity, loss |-> t.loss,
           product_id |-> t.product_id,
           transaction_date |-> t.transaction_date] :
          c \in ClientIds, k \in Categories \cup {MissingCategory}, t \in Txns }

SeqsUpTo(S, n) == UNION { [1..m -> S] : m \in 0..n }

-----------------------------------------------------------------------------
(* Sequence helpers.                                                       *)
RECURSIVE SumSeq(_)
SumSeq(s) == IF s = <<>> THEN 0 ELSE Head(s) + SumSeq(Tail(s))

Range(s) == { s[i] : i \in 1..Len(s) }

\* pandas Series.unique(): the distinct values in order of first
\* appearance; a missing value is one of them.
RECURSIVE Unique(_)
Unique(s) ==
    IF s = <<>> THEN <<>>
    ELSE LET init == Unique(SubSeq(s, 1, Len(s) - 1))
             x == s[Len(s)]
         IN IF x \in Range(init) THEN init ELSE Append(init, x)

\* df[df['client_id'] == client_id]: the rows of the client, in table order.
RECURSIVE SelectClient(_, _)
SelectClient(df, client_id) ==
    IF df = <<>> THEN <<>>
    ELSE LET rest == SelectClient(Tail(df), client_id)
         IN IF Head(df).client_id = client_id THEN <<Head(df)>> \o rest ELSE rest

ClientIdColumn(df) == [i \in 1..Len(df) |-> df[i].client_id]
CategoryColumn(df) == [i \in 1..Len(df) |-> df[i].product_category]

\* A number of the feature matrix, kept as an exact fraction n/d.
Frac(n, d) == [n |-> n, d |-> d]

RECURSIVE Count(_, _)
Count(s, x) ==
    IF s = <<>> THEN 0
    ELSE (IF Head(s) = x THEN 1 ELSE 0) + Count(Tail(s), x)

\* A dict in insertion order, as a sequence of <<key, value>> pairs.
\* list(d.values())
DictValues(d) == [i \in 1..Len(d) |-> d[i][2]]
\* d[key] = value: an existing key keeps its place and takes the new value.
DictSet(d, key, value) ==
    IF \E i \in 1..Len(d) : d[i][1] = key
    THEN [i \in 1..Len(d) |-> IF d[i][1] = key THEN <<key, value>> ELSE d[i]]
    ELSE Append(d, <<key, value>>)

-----------------------------------------------------------------------------
(* prepare_data, lines 43-80.                                              *)

\* The number of entries of the dict literal of lines 61-70.
BaseFeatureCount == 8

\* Lines 61-70: the eight aggregates of one client's period-1 rows.
BaseFeatures(client_data) ==
    LET n == Len(client_data)
        col(f) == [i \in 1..n |-> client_data[i][f]]
    IN << <<"total_revenue", Frac(SumSeq(col("revenue")), 1)>>,
          <<"avg_transaction_value", Frac(SumSeq(col("revenue")), n)>>,
          <<"transaction_count", Frac(n, 1)>>,
          <<"unique_products", Frac(Len(Unique(col("product_id"))), 1)>>,
          <<"product_categories",
            Frac(Len(Unique(col("product_category"))), 1)>>,
          <<"avg_quantity_per_transaction", Frac(SumSeq(col("quantity")), n)>>,
          <<"total_loss", Frac(SumSeq(col("loss")), 1)>>,
          <<"days_active", Frac(Len(Unique(col("transaction_date"))), 1)>> >>

\* value_counts with the shares taken over all the rows of the column.
ValueCountsOverAllRows(column) ==
    [k \in Range(column) \ {MissingCategory} |->
        Frac(Count(column, k), Len(column))]

\* Line 73, Series.value_counts(normalize=True): missing values are dropped
\* (dropna=True is the default) and each remaining value gets its share of
\* the rows that are left.  A function from the values present to shares.
ValueCountsNormalized(column) ==
    LET present == Range(column) \ {MissingCategory}
        total == Cardinality({ i \in 1..Len(column) :
                               column[i] # MissingCategory })
    IN [k \in present |-> Frac(Count(column, k), total)]

\* Line 75, Series.get(cat, 0): the default is the int 0.
SeriesGet(series, cat) ==
    IF cat \in DOMAIN series THEN series[cat] ELSE Frac(0, 1)

\* Line 75, the f-string: str() of a string is the string, of NaN it is nan.
FormatCategory(cat) == IF cat = MissingCategory THEN "nan" ELSE cat
RatioKey(cat) == "category_ratio_" \o FormatCategory(cat)

\* Line 74: the categories the ratio columns are made for.
RatioCategoriesOfClient(df, client_data) == Unique(CategoryColumn(client_data))
RatioCategories(df, client_data) == Unique(CategoryColumn(df))

\* Lines 72-75: the ratio entries added to feature_dict.
RECURSIVE AddRatios(_, _, _)
AddRatios(feature_dict, cats, category_counts) ==
    IF cats = <<>> THEN feature_dict
    ELSE AddRatios(DictSet(feature_dict, RatioKey(Head(cats)),
                           SeriesGet(category_counts, Head(cats))),
                   Tail(cats), category_counts)

\* Lines 58-77: the feature row of one client.
FeatureRow(df, client_id) ==
    LET client_data == SelectClient(df, client_id)
        category_counts == ValueCountsNormalized(CategoryColumn(client_data))
        feature_dict == AddRatios(BaseFeatures(client_data),
                                  RatioCategories(df, client_data),
                                  category_counts)
    IN DictValues(feature_dict)

\* Line 78.
ChurnLabelInverted(client_id, churned) == IF client_id \in churned THEN 0 ELSE 1
ChurnLabel(client_id, churned) == IF client_id \in churned THEN 1 ELSE 0

\* Line 78, labels.append.
LabelsPrepend(lst, x) == <<x>> \o lst
LabelsAppend(lst, x) == Append(lst, x)

IdlePrep ==
    /\ pcPrep = "idle"
    /\ df1 = <<>>
    /\ clients_period1 = {} /\ clients_period2 = {} /\ churners = {}
    /\ remaining = {} /\ visited = <<>>
    /\ features = <<>> /\ labels = <<>>

\* The state at the call prepare_data(df1, df2).  df1 is read all through
\* the call and is kept; df2 is read once, at line 49, and is an input of
\* that step.
InitPrepVars ==
    /\ pcPrep = "start"
    /\ df1 \in SeqsUpTo(Rows, MaxRows)
    /\ clients_period1 = {} /\ clients_period2 = {} /\ churners = {}
    /\ remaining = {} /\ visited = <<>>
    /\ features = <<>> /\ labels = <<>>

\* Lines 47-55.  df2 is given by its client_id column, the only one read.
IdentifyChurners ==
    /\ pcPrep = "start"
    /\ clients_period1' = Range(Unique(ClientIdColumn(df1)))
    /\ \E df2 \in SeqsUpTo(ClientIds, MaxRows2) :
         clients_period2' = Range(Unique(df2))
    /\ churners' = clients_period1' \ clients_period2'
    /\ remaining' = clients_period1'
    /\ features' = <<>>
    /\ labels' = <<>>
    /\ pcPrep' = "loop"
    /\ UNCHANGED <<df1, visited, trainVars>>

\* Lines 57-78, one iteration.  clients_period1 is a Python set: the loop
\* visits its members in the set's iteration order, which is the order of
\* the hash table (for string ids it changes from run to run), so the next
\* member is any member not visited yet.
LoopBody ==
    /\ pcPrep = "loop"
    /\ \E client_id \in remaining :
         /\ features' = Append(features, FeatureRow(df1, client_id))
         /\ labels' = LabelsAppend(labels, ChurnLabel(client_id, churners))
         /\ visited' = Append(visited, client_id)
         /\ remaining' = remaining \ {client_id}
    /\ UNCHANGED <<pcPrep, df1, clients_period1, clients_period2,
                   churners, trainVars>>

\* Line 80.
ReturnArrays ==
    /\ pcPrep = "loop"
    /\ remaining = {}
    /\ pcPrep' = "returned"
    /\ UNCHANGED <<df1, clients_period1, clients_period2, churners,
                   remaining, visited, features, labels, trainVars>>

NextPrep == IdentifyChurners \/ LoopBody \/ ReturnArrays


-----------------------------------------------------------------------------
(* Python floats: finite values, +inf and NaN.                             *)
Fin(n) == [k |-> "fin", v |-> n]
FloatInf == [k |-> "inf", v |-> 0]
FloatNaN == [k |-> "nan", v |-> 0]

IsFinite(a) == a.k = "fin"

\* a < b: false as soon as one side is NaN.
FloatLess(a, b) ==
    CASE a.k = "nan" \/ b.k = "nan" -> FALSE
      [] a.k = "inf" -> FALSE
      [] b.k = "inf" -> TRUE
      [] OTHER -> a.v < b.v

\* a + b of non-negative floats.
FloatAdd(a, b) ==
    CASE a.k = "nan" \/ b.k = "nan" -> FloatNaN
      [] a.k = "inf" \/ b.k = "inf" -> FloatInf
      [] OTHER -> Fin(a.v + b.v)

RECURSIVE FloatSum(_)
FloatSum(s) == IF s = <<>> THEN Fin(0) ELSE FloatAdd(FloatSum(SubSeq(s, 1, Len(s) - 1)), s[Len(s)])

\* What criterion(outputs, batch_labels).item() can be for one batch.
BatchLosses == {Fin(1), Fin(2), FloatInf, FloatNaN}
BatchSizes == {1, 32}

-----------------------------------------------------------------------------
(* train_churn_model, lines 82-157.                                        *)

\* The model's parameters: name -> tensor.  All the parameter tensors of
\* the network are taken together as one tensor "t1" of the heap; its
\* value is the number of optimizer steps that made it (0: the initial
\* random values).
model_params == {<<"weight", "t1">>}

\* Python None, and a dict as the set of its items.
None == [none |-> TRUE, items |-> {}]
Dict(items) == [none |-> FALSE, items |-> items]

\* model.state_dict(): name -> the parameter's tensor itself (detached, the
\* same storage).
StateDict == Dict(model_params)

\* dict.copy(), line 149: a new dict holding the same tensor objects.
DictCopy(d) == Dict({ <<it[1], it[2]>> : it \in d.items })

\* The values the tensors named by a dict hold now.
ValuesOf(items, heap) == { <<it[1], heap[it[2]]>> : it \in items }
ParamValues == ValuesOf(model_params, tensors)
SnapshotValues == IF best_model.none THEN {} ELSE ValuesOf(best_model.items, tensors)

\* Line 126, optimizer.step(): every parameter tensor is updated in place.
OptimizerStep(heap) ==
    [t \in DOMAIN heap |->
        IF \E it \in model_params : it[2] = t THEN heap[t] + 1 ELSE heap[t]]

\* Line 156, load_state_dict(sd): copies sd's tensor for each name into
\* the parameter's tensor, in place.
LoadStateDict(heap, sd) ==
    [t \in DOMAIN heap |->
        IF \E it \in model_params : it[2] = t
        THEN LET name == (CHOOSE it \in model_params : it[2] = t)[1]
                 src == (CHOOSE it \in sd.items : it[1] = name)[2]
             IN heap[src]
        ELSE heap[t]]

\* Line 94, train_test_split(test_size=0.2): n_test = ceil(0.2 n) and
\* n_train = n - n_test.
NTest(n) == (n + 4) \div 5
NTrain(n) == n - NTest(n)
\* len(DataLoader): ceil(n / batch_size).
LoaderLen(n, bs) == (n + bs - 1) \div bs

\* Line 114.
InitialBestValLossZero == Fin(0)
InitialBestValLoss == FloatInf

\* Line 117, range(epochs) is exhausted.
RangeExhaustedEarly(e, budget) == e >= budget \/ e >= 1
RangeExhausted(e, budget) == e >= budget

\* Line 147.
Improves(v, best) == FloatLess(v, best)

IdleTrain ==
    /\ pc = "idle"
    /\ epochs = 0 /\ batch_size = 1 /\ nSamples = 0
    /\ nTrainBatches = 0 /\ nValBatches = 0
    /\ epoch = 0 /\ batchIdx = 0 /\ mode = "train"
    /\ tensors = [t \in {"t1"} |-> 0]
    /\ best_val_loss = FloatInf /\ best_model = None /\ val_loss = Fin(0)
    /\ valHist = <<>> /\ paramHist = <<>>
    /\ new_client_data = <<>> /\ probabilities = <<>>

\* The state at the call train_churn_model(df1, df2, epochs, batch_size).
InitTrainVars ==
    /\ pc = "start"
    /\ epochs \in 0..MaxEpochs
    /\ batch_size \in BatchSizes
    /\ nSamples \in 0..MaxSamples
    /\ nTrainBatches = 0 /\ nValBatches = 0
    /\ epoch = 0 /\ batchIdx = 0 /\ mode = "train"
    /\ tensors = [t \in {"t1"} |-> 0]
    /\ best_val_loss = FloatInf /\ best_model = None /\ val_loss = Fin(0)
    /\ valHist = <<>> /\ paramHist = <<>>
    /\ new_client_data = <<>> /\ probabilities = <<>>

\* Lines 86-115.  With no row fit_transform raises, with one row
\* train_test_split raises (the train set would be empty).
TrainSetup ==
    /\ pc = "start"
    /\ IF nSamples < 2
       THEN /\ pc' = "setup_raised"
            /\ UNCHANGED <<nTrainBatches, nValBatches, best_val_loss, best_model>>
       ELSE /\ nTrainBatches' = LoaderLen(NTrain(nSamples), batch_size)
            /\ nValBatches' = LoaderLen(NTest(nSamples), batch_size)
            /\ best_val_loss' = InitialBestValLoss
            /\ best_model' = None
            /\ pc' = "loop"
    /\ UNCHANGED <<epochs, batch_size, nSamples, epoch, batchIdx, mode, tensors,
                   val_loss, valHist, paramHist, new_client_data, probabilities,
                   prepVars>>

\* Lines 117-119: the next epoch starts with model.train().
BeginEpoch ==
    /\ pc = "loop"
    /\ ~RangeExhausted(epoch, epochs)
    /\ mode' = "train"
    /\ batchIdx' = 0
    /\ pc' = "train"
    /\ UNCHANGED <<epochs, batch_size, nSamples, nTrainBatches, nValBatches,
                   epoch, tensors, best_val_loss, best_model, val_loss,
                   valHist, paramHist, new_client_data, probabilities, prepVars>>

\* Lines 121-127: one batch of train_loader, one optimizer step.
TrainBatch ==
    /\ pc = "train"
    /\ batchIdx < nTrainBatches
    /\ tensors' = OptimizerStep(tensors)
    /\ batchIdx' = batchIdx + 1
    /\ UNCHANGED <<pc, epochs, batch_size, nSamples, nTrainBatches, nValBatches,
                   epoch, mode, best_val_loss, best_model, val_loss,
                   valHist, paramHist, new_client_data, probabilities, prepVars>>

\* Lines 129-153: the EVAL phase and the end of the epoch.
Validate ==
    /\ pc = "train"
    /\ batchIdx = nTrainBatches
    /\ mode' = "eval"
    /\ \E losses \in [1..nValBatches -> BatchLosses] :
         /\ val_loss' = FloatSum(losses)
         /\ IF Improves(val_loss', best_val_loss)
            THEN /\ best_val_loss' = val_loss'
                 /\ best_model' = DictCopy(StateDict)
            ELSE UNCHANGED <<best_val_loss, best_model>>
    /\ valHist' = Append(valHist, val_loss')
    /\ paramHist' = Append(paramHist, ParamValues)
    /\ epoch' = epoch + 1
    /\ pc' = "loop"
    /\ UNCHANGED <<epochs, batch_size, nSamples, nTrainBatches, nValBatches,
                   batchIdx, tensors, new_client_data, probabilities, prepVars>>

\* Lines 155-157: load_state_dict(None) raises.
LoadBest ==
    /\ pc = "loop"
    /\ RangeExhausted(epoch, epochs)
    /\ IF best_model.none
       THEN pc' = "load_raised" /\ UNCHANGED tensors
       ELSE pc' = "returned" /\ tensors' = LoadStateDict(tensors, best_model)
    /\ UNCHANGED <<epochs, batch_size, nSamples, nTrainBatches, nValBatches,
                   epoch, batchIdx, mode, best_val_loss, best_model, val_loss,
                   valHist, paramHist, new_client_data, probabilities, prepVars>>

-----------------------------------------------------------------------------
(* predict_churn, lines 159-180.                                           *)

\* Lines 166-167: the feature rows predict_churn builds from new_client_data.
\* The list stays empty: the preparation is a comment.
PredictFeatures(data) == <<>>

\* Line 170, scaler.transform: raises ValueError unless given a 2-D array
\* with at least one row; else one scaled row per row.
TransformRaises(X) == Len(X) = 0

\* Lines 173-180: one probability of class 1 per row.
ChurnProbabilities(X) == [i \in 1..Len(X) |-> "p"]

PredictChurn ==
    /\ pc = "returned"
    /\ mode' = "eval"
    /\ \E data \in SeqsUpTo({"row"}, MaxNewRows) :
         /\ new_client_data' = data
         /\ LET X == PredictFeatures(data)
            IN IF TransformRaises(X)
               THEN pc' = "predict_raised" /\ UNCHANGED probabilities
               ELSE pc' = "predicted" /\ probabilities' = ChurnProbabilities(X)
    /\ UNCHANGED <<epochs, batch_size, nSamples, nTrainBatches, nValBatches,
                   epoch, batchIdx, tensors, best_val_loss, best_model,
                   val_loss, valHist, paramHist, prepVars>>

NextTrain == TrainSetup \/ BeginEpoch \/ TrainBatch \/ Validate \/ LoadBest
             \/ PredictChurn

-----------------------------------------------------------------------------
InitPrep == InitPrepVars /\ IdleTrain
InitTrain == InitTrainVars /\ IdlePrep
Init == InitPrep \/ InitTrain
Next == NextPrep \/ NextTrain

SpecPrep == InitPrep /\ [][NextPrep]_vars
SpecTrain == InitTrain /\ [][NextTrain]_vars
Spec == Init /\ [][Next]_vars

-----------------------------------------------------------------------------
(* Properties of prepare_data (SpecPrep).                                  *)

\* The period-1 client-id set, read off the table, and the period-2 set.
A == { df1[i].client_id : i \in 1..Len(df1) }
B == clients_period2

\* C1: every id of A \ B gets label 1, every id of A \cap B gets label 0,
\* and no id outside A gets a row or a label: each row made so far belongs
\* to an id of A and carries that id's label, and at the return every id
\* of A has its row.
C1_LabelsBySetDifference ==
    pcPrep \in {"loop", "returned"} =>
        /\ Len(labels) = Len(visited)
        /\ Len(features) = Len(visited)
        /\ \A i \in 1..Len(visited) :
             /\ visited[i] \in A
             /\ visited[i] \in A \ B => labels[i] = 1
             /\ visited[i] \in A \cap B => labels[i] = 0
        /\ pcPrep = "returned" => \A c \in A : \E i \in 1..Len(visited) : visited[i] = c

C1_Witness ==
    /\ pcPrep = "returned"
    /\ A \ B # {} /\ A \cap B # {} /\ B \ A # {}
    /\ \E i, j \in 1..Len(labels) : labels[i] = 1 /\ labels[j] = 0

\* C4: every row of the feature matrix has the width 8 + (number of
\* distinct values of the period-1 product_category column), whatever the
\* categories of the row's client.
C4_ConstantWidth ==
    \A i \in 1..Len(features) :
        Len(features[i]) = BaseFeatureCount
                           + Cardinality({ df1[j].product_category : j \in 1..Len(df1) })

C4_Witness ==
    /\ pcPrep = "returned"
    /\ Len(features) = 2
    /\ Cardinality({ df1[j].product_category : j \in 1..Len(df1) }) = 3
    /\ \E c \in A :
         Cardinality(Range(CategoryColumn(SelectClient(df1, c)))) = 1

\* Arithmetic on the exact fractions of the feature matrix.
FracEq(f, g) == f.n * g.d = g.n * f.d
FracAdd(f, g) == Frac(f.n * g.d + g.n * f.d, f.d * g.d)
RECURSIVE FracSum(_)
FracSum(s) == IF s = <<>> THEN Frac(0, 1) ELSE FracAdd(Head(s), FracSum(Tail(s)))

\* The category-ratio columns of a row, and the category of each.
RatioColumns(row) == SubSeq(row, BaseFeatureCount + 1, Len(row))
Period1Categories == Unique(CategoryColumn(df1))
ClientCategories(c) == CategoryColumn(SelectClient(df1, c))
NonMissing(column) == Cardinality({ i \in 1..Len(column) : column[i] # MissingCategory })

\* C5 as stated: in every row the category-ratio columns sum to 1, a
\* category the client has contributing (the client's transactions in it) /
\* (the client's transaction count) and a category the client lacks 0.
C5_RatiosSumToOne ==
    \A i \in 1..Len(features) :
        LET ratios == RatioColumns(features[i])
            column == ClientCategories(visited[i])
        IN /\ FracEq(FracSum(ratios), Frac(1, 1))
           /\ Len(ratios) = Len(Period1Categories)
           /\ \A j \in 1..Len(ratios) :
                FracEq(ratios[j],
                       Frac(Count(column, Period1Categories[j]), Len(column)))

\* C5 amended: the ratio column of a category is (the client's
\* transactions in it) / (the client's transactions whose category is not
\* missing), 0 for a category the client lacks and for the missing-value
\* column; the columns sum to 1 when the client has a transaction with a
\* category, and to 0 when all its categories are missing.
C5_RatiosOverNonMissing ==
    \A i \in 1..Len(features) :
        LET ratios == RatioColumns(features[i])
            column == ClientCategories(visited[i])
            nn == NonMissing(column)
        IN /\ Len(ratios) = Len(Period1Categories)
           /\ FracEq(FracSum(ratios), IF nn > 0 THEN Frac(1, 1) ELSE Frac(0, 1))
           /\ \A j \in 1..Len(ratios) :
                LET cat == Period1Categories[j]
                IN IF cat # MissingCategory /\ cat \in Range(column)
                   THEN FracEq(ratios[j], Frac(Count(column, cat), nn))
                   ELSE FracEq(ratios[j], Frac(0, 1))

C5_Witness ==
    /\ pcPrep = "returned"
    /\ \E i \in 1..Len(features) :
         LET column == ClientCategories(visited[i])
         IN /\ MissingCategory \in Range(column)
            /\ "a" \in Range(column)
            /\ "b" \notin Range(column)
            /\ "b" \in Range(Period1Categories)
            /\ RatioColumns(features[i])[1] # Frac(0, 1)

\* The label of a client by the definition of churn.
LabelOf(c) == IF c \in B THEN 0 ELSE 1

\* C7 as stated: the rows are in the order in which the client ids first
\* occur in the period-1 table, and label i belongs to the client of row i.
C7_FirstOccurrenceOrder ==
    pcPrep = "returned" =>
        /\ visited = Unique(ClientIdColumn(df1))
        /\ \A i \in 1..Len(visited) : labels[i] = LabelOf(visited[i])

\* C7 amended: the matrix has one row per distinct period-1 client id, in
\* the iteration order of the Python set of those ids, which need not be
\* the order of first occurrence; label i belongs to the client of row i.
C7_SetOrderParallelLabels ==
    pcPrep = "returned" =>
        /\ Len(visited) = Cardinality(A)
        /\ Range(visited) = A
        /\ Len(features) = Len(visited)
        /\ Len(labels) = Len(visited)
        /\ \A i \in 1..Len(visited) :
             /\ labels[i] = LabelOf(visited[i])
             /\ features[i][3] = Frac(Count(ClientIdColumn(df1), visited[i]), 1)

C7_Witness ==
    /\ pcPrep = "returned"
    /\ Len(visited) = 2
    /\ visited # Unique(ClientIdColumn(df1))
    /\ labels[1] # labels[2]
    /\ features[1][3] # features[2][3]

-----------------------------------------------------------------------------
(* Properties of train_churn_model and predict_churn (SpecTrain).          *)

\* Epoch e has the lowest validation loss of the epochs run.
LowestEpoch(e) ==
    /\ valHist[e].k # "nan"
    /\ \A e2 \in 1..Len(valHist) : ~FloatLess(valHist[e2], valHist[e])

\* C2: the parameters of the returned model are those the model had at the
\* end of the epoch with the lowest validation loss.
C2_ReturnsBestSnapshot ==
    pc = "returned" =>
        \E e \in 1..Len(valHist) : LowestEpoch(e) /\ ParamValues = paramHist[e]

\* C3: the returned parameters never have a validation loss worse than the
\* validation loss measured at epoch 0.
C3_NotWorseThanEpoch0 ==
    pc = "returned" =>
        \A e \in 1..Len(valHist) :
            paramHist[e] = ParamValues => ~FloatLess(valHist[1], valHist[e])

\* C6: predict_churn returns exactly one probability per prepared row of
\* its client data.
C6_OneProbabilityPerRow ==
    pc \in {"predicted", "predict_raised"} =>
        /\ pc = "predicted"
        /\ Len(probabilities) = Len(new_client_data)

\* C8: the values held by the best snapshot change only at the end of an
\* epoch whose validation loss is strictly lower than the best seen so far,
\* where they become the model's current parameters; no other step, an
\* optimizer step of a later TRAIN phase included, changes them.
C8_SnapshotFrame ==
    [][ SnapshotValues' # SnapshotValues =>
          /\ pc = "train" /\ pc' = "loop"
          /\ FloatLess(val_loss', best_val_loss)
          /\ SnapshotValues' = ParamValues' ]_vars

\* C9: the loop is left only after exactly the configured number of
\* epochs, each one TRAIN phase of len(train_loader) optimizer steps
\* followed by one EVAL phase, whatever the validation losses; the reload
\* and the return come after the last epoch.
C9_FullEpochBudget ==
    /\ pc \in {"returned", "load_raised", "predicted", "predict_raised"} =>
           /\ epoch = epochs
           /\ Len(valHist) = epochs
    /\ pc \in {"loop", "train", "returned", "load_raised", "predicted",
               "predict_raised"} =>
           /\ Len(valHist) = epoch
           /\ Len(paramHist) = epoch
           /\ epoch <= epochs
           /\ \A e \in 1..Len(paramHist) :
                paramHist[e] = {<<"weight", e * nTrainBatches>>}
    /\ pc = "train" => mode = "train" /\ epoch < epochs
    /\ pc = "loop" /\ epoch > 0 => mode = "eval"

C9_Witness ==
    /\ pc = "returned"
    /\ epochs >= 3
    /\ nTrainBatches >= 2
    /\ FloatLess(valHist[1], valHist[2])
    /\ FloatLess(valHist[2], valHist[3])

\* C10: with a budget of at least 1 and a finite first validation loss a
\* snapshot exists from the end of the first epoch on, so the reload never
\* gets None; with a budget of 0 no snapshot is ever captured and the
\* reload gets None.
C10_FirstEpochCaptures ==
    /\ (epochs >= 1 /\ Len(valHist) >= 1 /\ IsFinite(valHist[1])) =>
           /\ ~best_model.none
           /\ pc # "load_raised"
    /\ epochs = 0 =>
           /\ best_model.none
           /\ pc \notin {"returned", "predicted", "predict_raised"}

C10_Witness ==
    /\ pc = "returned"
    /\ Len(valHist) >= 2
    /\ IsFinite(valHist[1])
    /\ valHist[2] = FloatNaN
    /\ ~best_model.none

=============================================================================
